---- MODULE Spec2Model ----
(***************************************************************************)
(* Model of panel/command/serve.py: Serve.invoke, the bootstrap of the     *)
(* "panel serve" command.  invoke is one linear procedure; the model cuts  *)
(* it into its consecutive blocks so that the position of the procedure    *)
(* (pc) is observable between them.  The event loop of the constructed     *)
(* Server is modelled by the callback queue it is handed.                  *)
(*                                                                         *)
(* Python values that may be None are wrapped: None is <<>>, a value v is  *)
(* <<v>>.  A str or bytes value is a sequence, the empty one <<>>; a file  *)
(* name is a sequence of characters, a path a sequence of names.           *)
(***************************************************************************)
EXTENDS Integers, Sequences, FiniteSets, TLC

VARIABLES args, settings, pc, outcome, files, applications, server_kwargs,
          watched, warned, server, callbacks, shown, cb_runs

vars == <<args, settings, pc, outcome, files, applications, server_kwargs,
          watched, warned, server, callbacks, shown, cb_runs>>

\* ------------------------------------------------------------------ bounds
\* longest list of positional FILES arguments
MaxFiles == 2

\* ------------------------------------------------------------ Python values
None == <<>>

Some(v) == <<v>>

\* Python truthiness of an optional bytes/str value: None and empty are falsy
Truthy(o) == o # None /\ o[1] # <<>>

\* getattr(args, key, None)
GetAttr(a, key) == IF key \in DOMAIN a THEN a[key] ELSE None

\* d[key] = v on a dict modelled as a function
KwSet(d, key, v) == [k \in DOMAIN d \cup {key} |-> IF k = key THEN v ELSE d[k]]

\* an insertion-ordered dict: a sequence of <<key, value>> with unique keys
DictKeys(d) == [i \in 1..Len(d) |-> d[i][1]]

DictKeySet(d) == {d[i][1] : i \in 1..Len(d)}

DictSet(d, k, v) ==
    IF k \in DictKeySet(d)
    THEN [i \in 1..Len(d) |-> IF d[i][1] = k THEN <<k, v>> ELSE d[i]]
    ELSE Append(d, <<k, v>>)

\* ---------------------------------------------------------------- names
N_app == <<"a","p","p">>
N_a_py == <<"a",".","p","y">>
N_ap_star == <<"a","p","*">>
N_b_star == <<"b","*">>
N_main_py == <<"m","a","i","n",".","p","y">>
N_index_html == <<"i",".","h","t","m","l">>
N_x_HTML == <<"x",".","H","T","M","L">>
N_static == <<"s","t">>
N_s_css == <<"s",".","c","s","s">>
N_d_yaml == <<"d",".","y","a","m","l">>
N_c_yaml == <<"c",".","y","a","m","l">>
N_yaml == <<"y","a","m","l">>
N_extra == <<"e",".","t","x","t">>
N_cwd == <<"c","w","d">>

\* -------------------------------------------------------------- filesystem
\* The working directory and its content, in listing order (the order of
\* os.listdir / os.walk).  The directory app/st/d.yaml has a name that
\* matches a watched suffix; app/x.HTML and app/st/yaml do not match.
Cwd == <<N_cwd>>

FS == <<
    [path |-> Cwd \o <<N_app>>,                              kind |-> "dir"],
    [path |-> Cwd \o <<N_app, N_index_html>>,                kind |-> "file"],
    [path |-> Cwd \o <<N_app, N_main_py>>,                   kind |-> "file"],
    [path |-> Cwd \o <<N_app, N_x_HTML>>,                    kind |-> "file"],
    [path |-> Cwd \o <<N_app, N_static>>,                    kind |-> "dir"],
    [path |-> Cwd \o <<N_app, N_static, N_s_css>>,           kind |-> "file"],
    [path |-> Cwd \o <<N_app, N_static, N_yaml>>,            kind |-> "file"],
    [path |-> Cwd \o <<N_app, N_static, N_d_yaml>>,          kind |-> "dir"],
    [path |-> Cwd \o <<N_app, N_static, N_d_yaml, N_c_yaml>>, kind |-> "file"],
    [path |-> Cwd \o <<N_a_py>>,                             kind |-> "file"],
    [path |-> Cwd \o <<N_extra>>,                            kind |-> "file"] >>

\* os.path.abspath of a path relative to the working directory
AbsPath(p) == Cwd \o p

\* os.path.isdir
IsDir(p) == \E i \in 1..Len(FS) : FS[i].path = AbsPath(p) /\ FS[i].kind = "dir"

\* os.path.lexists
Exists(p) == \E i \in 1..Len(FS) : FS[i].path = AbsPath(p)

\* os.path.join(path, name)
Join(p, name) == Append(p, name)

\* fnmatch.fnmatch(name, pat) on a case-sensitive filesystem: '*' matches
\* any run of characters, '?' one character, anything else itself
RECURSIVE fnmatch(_, _)
fnmatch(name, pat) ==
    IF pat = <<>> THEN name = <<>>
    ELSE IF Head(pat) = "*"
         THEN fnmatch(name, Tail(pat))
              \/ (name # <<>> /\ fnmatch(Tail(name), pat))
         ELSE /\ name # <<>>
              /\ (Head(pat) = "?" \/ Head(pat) = Head(name))
              /\ fnmatch(Tail(name), Tail(pat))

Pat_html == <<"*",".","h","t","m","l">>
Pat_css == <<"*",".","c","s","s">>
Pat_yaml == <<"*",".","y","a","m","l">>

\* the filter of find_autoreload_targets
IsReloadName(name) ==
    fnmatch(name, Pat_html) \/ fnmatch(name, Pat_css) \/ fnmatch(name, Pat_yaml)

\* glob.has_magic
HasMagic(name) == \E i \in 1..Len(name) : name[i] \in {"*", "?", "["}

\* p is a proper prefix of q
IsPrefix(p, q) == Len(p) < Len(q) /\ SubSeq(q, 1, Len(p)) = p

\* the entries of the working directory that glob pattern `name` matches,
\* from listing position i on; hidden entries are matched only by a pattern
\* that starts with a dot
RECURSIVE GlobHits(_, _)
GlobHits(name, i) ==
    IF i > Len(FS) THEN <<>>
    ELSE LET p == FS[i].path
             hit == /\ Len(p) = Len(Cwd) + 1
                    /\ fnmatch(p[Len(p)], name)
                    /\ (Head(p[Len(p)]) = "." => Head(name) = ".")
         IN  (IF hit THEN << <<p[Len(p)]>> >> ELSE <<>>) \o GlobHits(name, i + 1)

\* glob.glob(f) for a pattern of one component relative to the working
\* directory: a literal pattern yields itself when it exists, a pattern with
\* magic the matching entries of the directory in listing order
Glob(f) ==
    IF ~HasMagic(f[Len(f)])
    THEN (IF Exists(f) THEN <<f>> ELSE <<>>)
    ELSE GlobHits(f[Len(f)], 1)

\* ------------------------------------------------- external collaborators
\* os.path.splitext(name)[0]: the name up to its last dot, leading dots
\* not counted
RECURSIVE Stem(_, _)
Stem(name, i) ==
    IF i <= 1 THEN name
    ELSE IF name[i] = "." /\ (\E j \in 1..(i - 1) : name[j] # ".")
         THEN SubSeq(name, 1, i - 1)
         ELSE Stem(name, i - 1)

\* the route the handler of a source path is served at: '/' followed by the
\* directory name or by the script name without its extension
UrlPath(f) ==
    LET name == f[Len(f)]
    IN  <<"/">> \o (IF IsDir(f) THEN name ELSE Stem(name, Len(name)))

\* Application(): an application with no handler
EmptyApplication == [handlers |-> <<>>, argv |-> <<>>]

\* bokeh's build_single_handler_applications(files, argvs): one application
\* per file under the route of its handler, a later file replacing an earlier
\* one of the same route
RECURSIVE build_single_handler_applications(_, _)
build_single_handler_applications(fs, argv) ==
    IF fs = <<>> THEN <<>>
    ELSE LET f == fs[Len(fs)]
             rest == build_single_handler_applications(SubSeq(fs, 1, Len(fs) - 1), argv)
         IN  DictSet(rest, UrlPath(f), [handlers |-> <<f>>, argv |-> argv])

\* a bokeh PrioritizedSetting called with the command line's value: the
\* command line wins, then the environment, then None
Prioritized(cli, env) == IF cli # None THEN cli ELSE env

\* ---------------------------------------------------------------- inputs
\* the positional arguments the command may be given.  Without --glob they
\* are existing sources, a directory and a script, so that the application
\* builder finds each of them; with --glob they are the script, a pattern
\* that matches the directory and a pattern that matches nothing.
ArgPaths(gl) ==
    IF gl THEN {<<N_a_py>>, <<N_ap_star>>, <<N_b_star>>}
    ELSE {<<N_app>>, <<N_a_py>>}

RECURSIVE SeqsUpTo(_, _)
SeqsUpTo(S, n) ==
    IF n = 0 THEN {<<>>}
    ELSE LET shorter == SeqsUpTo(S, n - 1)
         IN  shorter \cup {Append(q, x) : q \in shorter, x \in S}

\* the keys invoke copies from the command line when they are not None
AllowList == {"port", "address", "allow_websocket_origin", "num_procs",
              "prefix", "index", "keep_alive_milliseconds",
              "check_unused_sessions_milliseconds",
              "unused_session_lifetime_milliseconds",
              "stats_log_frequency_milliseconds",
              "mem_log_frequency_milliseconds", "use_xheaders",
              "websocket_max_message_size", "include_cookies",
              "include_headers", "exclude_cookies", "exclude_headers",
              "session_token_expiration"}

\* the optional attributes of the parsed command line, num_procs apart
OptionalArgs == {"port", "address", "allow_websocket_origin", "prefix",
                 "index", "keep_alive", "check_unused_sessions",
                 "unused_session_lifetime", "stats_log_frequency",
                 "mem_log_frequency", "use_xheaders",
                 "websocket_max_message_size", "include_cookies",
                 "include_headers", "exclude_cookies", "exclude_headers",
                 "session_token_expiration", "ssl_certfile", "ssl_keyfile",
                 "auth_module", "cookie_secret"}

\* the optional settings the environment may define
OptionalSettings == {"ssl_certfile", "ssl_keyfile", "ssl_password",
                     "auth_module", "cookie_secret", "xsrf_cookies"}

\* which optional values a run is given, on the command line (cli) and in
\* the environment (env): none at all, or some of them, so that a value
\* comes from the command line only (auth_module), from both (ssl_keyfile),
\* from the environment only (ssl_certfile, cookie_secret) or from neither
ConfigProfiles ==
    { [cli |-> {}, env |-> {}],
      [cli |-> {"port", "index", "keep_alive", "stats_log_frequency",
                "use_xheaders", "ssl_keyfile", "auth_module"},
       env |-> {"ssl_certfile", "ssl_keyfile", "cookie_secret"}] }

SessionIdModes == {None, Some("unsigned"), Some("signed"),
                   Some("external-signed"), Some("bogus")}

SecretKeys == {None, Some(<<>>), Some(<<"k">>)}

NumProcs == {None, Some(1), Some(4)}

DevTargets == {None, Some(<<>>), Some(<< <<N_extra>>, <<N_app>> >>)}

INDEX_HTML == "INDEX_HTML"

\* the attributes of an argparse.Namespace as invoke receives it
MakeArgs(fl, gl, np, sid, dv, sh, tr, given) ==
    [k \in {"files", "glob", "args", "num_procs", "session_ids", "dev", "show",
            "tranquilize", "disable_index", "disable_index_redirect",
            "enable_xsrf_cookies"} \cup OptionalArgs |->
        CASE k = "files" -> fl
          [] k = "glob" -> gl
          [] k = "args" -> <<"--x">>
          [] k = "num_procs" -> np
          [] k = "session_ids" -> sid
          [] k = "dev" -> dv
          [] k = "show" -> sh
          [] k = "tranquilize" -> tr
          [] k = "disable_index" -> given # {}
          [] k = "disable_index_redirect" -> FALSE
          [] k = "enable_xsrf_cookies" -> Some(given # {})
          [] OTHER -> IF k \in given THEN Some(<<k>>) ELSE None]

\* the settings object: what the environment and the config file define
MakeSettings(sign, key, env) ==
    [k \in {"sign_sessions", "secret_key"} \cup OptionalSettings |->
        CASE k = "sign_sessions" -> sign
          [] k = "secret_key" -> key
          [] OTHER -> IF k \in env THEN Some(<<k, "env">>) ELSE None]

Init ==
    /\ \E gl \in BOOLEAN, np \in NumProcs, sid \in SessionIdModes,
          dv \in DevTargets, sh \in BOOLEAN, tr \in BOOLEAN, sign \in BOOLEAN,
          key \in SecretKeys, profile \in ConfigProfiles :
       \E fl \in SeqsUpTo(ArgPaths(gl), MaxFiles) :
          /\ args = MakeArgs(fl, gl, np, sid, dv, sh, tr, profile.cli)
          /\ settings = MakeSettings(sign, key, profile.env)
    /\ pc = "files"
    /\ outcome = "none"
    /\ files = <<>>
    /\ applications = <<>>
    /\ server_kwargs = <<>>
    /\ watched = {}
    /\ warned = {}
    /\ server = None
    /\ callbacks = <<>>
    /\ shown = <<>>
    /\ cb_runs = 0

\* --------------------------------------------------------------- actions
\* the discovered files: every argument, expanded when --glob is given
RECURSIVE DiscoverFiles(_, _)
DiscoverFiles(fl, gl) ==
    IF fl = <<>> THEN <<>>
    ELSE (IF gl THEN Glob(Head(fl)) ELSE <<Head(fl)>>) \o DiscoverFiles(Tail(fl), gl)

\* mutant: the default application added to every table
RouteTable_AlwaysDefault(fl, argv) ==
    DictSet(build_single_handler_applications(fl, argv), <<"/">>, EmptyApplication)

\* the route table: the builder's applications, or the default one
RouteTable(fl, argv) ==
    LET built == build_single_handler_applications(fl, argv)
    IN  IF Len(built) = 0 THEN DictSet(built, <<"/">>, EmptyApplication) ELSE built

ResolveRouteTable ==
    /\ pc = "files"
    /\ files' = DiscoverFiles(args.files, args.glob)
    /\ applications' = RouteTable(files', args.args)
    /\ pc' = "kwargs"
    /\ UNCHANGED <<args, settings, outcome, server_kwargs, watched, warned,
                   server, callbacks, shown, cb_runs>>

\* "rename args to be compatible with Server"
Rename(a, from, to) == IF a[from] # None THEN KwSet(a, to, a[from]) ELSE a

RenamedArgs(a) ==
    Rename(Rename(Rename(Rename(Rename(a,
        "keep_alive", "keep_alive_milliseconds"),
        "check_unused_sessions", "check_unused_sessions_milliseconds"),
        "unused_session_lifetime", "unused_session_lifetime_milliseconds"),
        "stats_log_frequency", "stats_log_frequency_milliseconds"),
        "mem_log_frequency", "mem_log_frequency_milliseconds")

\* mutant: the allow-list copied without the None filter
CopyAllowList_All(a) == [key \in AllowList |-> GetAttr(a, key)]

\* the allow-listed attributes that are not None
CopyAllowList(a) ==
    [key \in {k \in AllowList : GetAttr(a, k) # None} |-> GetAttr(a, key)]

DefaultIndex(kw) ==
    IF "index" \notin DOMAIN kw THEN KwSet(kw, "index", Some(INDEX_HTML)) ELSE kw

BuildServerKwargs ==
    /\ pc = "kwargs"
    /\ args' = RenamedArgs(args)
    /\ server_kwargs' = DefaultIndex(CopyAllowList(args'))
    /\ pc' = "tranquilize"
    /\ UNCHANGED <<settings, outcome, files, applications, watched, warned,
                   server, callbacks, shown, cb_runs>>

\* mutant: one fallback pattern per discovered file, and one more
ExtraPatterns_PerFile(fl) ==
    [i \in 1..(Len(fl) + 1) |->
        <<".*", "FallbackHandler",
          [fallback |-> [WSGIContainer |-> [tranquilized |-> fl]]]>>]

\* the catch-all pattern over the WSGI container of the tranquilized
\* application built from the file list
ExtraPatterns(fl) ==
    << <<".*", "FallbackHandler",
         [fallback |-> [WSGIContainer |-> [tranquilized |-> fl]]]>> >>

Tranquilize ==
    /\ pc = "tranquilize"
    /\ server_kwargs' = IF args.tranquilize
                        THEN KwSet(server_kwargs, "extra_patterns",
                                   Some(ExtraPatterns(files)))
                        ELSE server_kwargs
    /\ pc' = "signing"
    /\ UNCHANGED <<args, settings, outcome, files, applications, watched,
                   warned, server, callbacks, shown, cb_runs>>

\* the settings-derived entries, set whatever their value
SettingsKwargs(kw) ==
    KwSet(KwSet(KwSet(KwSet(KwSet(KwSet(kw,
        "sign_sessions", Some(settings.sign_sessions)),
        "secret_key", settings.secret_key),
        "ssl_certfile", Prioritized(GetAttr(args, "ssl_certfile"), settings.ssl_certfile)),
        "ssl_keyfile", Prioritized(GetAttr(args, "ssl_keyfile"), settings.ssl_keyfile)),
        "ssl_password", settings.ssl_password),
        "generate_session_ids", Some(TRUE))

ValidSessionIds(sid) ==
    sid \in {None, Some("unsigned"), Some("signed"), Some("external-signed")}

\* mutant: external-signed treated as signed, id generation left on
SessionIdKwargs_KeepGenerate(kw, sid) ==
    IF sid = None THEN kw
    ELSE IF sid = Some("unsigned") THEN KwSet(kw, "sign_sessions", Some(FALSE))
    ELSE IF sid \in {Some("signed"), Some("external-signed")}
         THEN KwSet(kw, "sign_sessions", Some(TRUE))
    ELSE kw

\* the four-way decision on --session-ids
SessionIdKwargs(kw, sid) ==
    IF sid = None THEN kw
    ELSE IF sid = Some("unsigned") THEN KwSet(kw, "sign_sessions", Some(FALSE))
    ELSE IF sid = Some("signed") THEN KwSet(kw, "sign_sessions", Some(TRUE))
    ELSE IF sid = Some("external-signed")
         THEN KwSet(KwSet(kw, "sign_sessions", Some(TRUE)),
                    "generate_session_ids", Some(FALSE))
    ELSE kw

ResolveSigning ==
    /\ pc = "signing"
    /\ server_kwargs' = SessionIdKwargs(SettingsKwargs(server_kwargs), args.session_ids)
    /\ IF ValidSessionIds(args.session_ids)
       THEN pc' = "secret" /\ outcome' = outcome
       ELSE pc' = "done" /\ outcome' = "RuntimeError"
    /\ UNCHANGED <<args, settings, files, applications, watched, warned,
                   server, callbacks, shown, cb_runs>>

\* mutant: only a None key counts as missing, an empty one passes
MissingSecret_NoneOnly(kw) == kw["sign_sessions"] = Some(TRUE) /\ kw["secret_key"] = None

\* the condition under which invoke dies for want of a secret key
MissingSecret(kw) == kw["sign_sessions"] = Some(TRUE) /\ ~Truthy(kw["secret_key"])

CheckSecretKey ==
    /\ pc = "secret"
    /\ IF MissingSecret(server_kwargs)
       THEN pc' = "done" /\ outcome' = "die_secret"
       ELSE pc' = "auth" /\ outcome' = outcome
    /\ UNCHANGED <<args, settings, files, applications, server_kwargs, watched,
                   warned, server, callbacks, shown, cb_runs>>

AuthProvider(path) ==
    IF Truthy(path) THEN Some([AuthModule |-> path[1]]) ELSE Some("NullAuth")

AuthKwargs(kw) ==
    KwSet(KwSet(KwSet(KwSet(KwSet(KwSet(kw,
        "auth_provider",
            AuthProvider(Prioritized(GetAttr(args, "auth_module"), settings.auth_module))),
        "xsrf_cookies",
            Prioritized(GetAttr(args, "enable_xsrf_cookies"), settings.xsrf_cookies)),
        "cookie_secret",
            Prioritized(GetAttr(args, "cookie_secret"), settings.cookie_secret)),
        "use_index", Some(~args.disable_index)),
        "redirect_root", Some(~args.disable_index_redirect)),
        "autoreload", Some(args.dev # None))

ResolveAuth ==
    /\ pc = "auth"
    /\ server_kwargs' = AuthKwargs(server_kwargs)
    /\ pc' = "dev"
    /\ UNCHANGED <<args, settings, outcome, files, applications, watched,
                   warned, server, callbacks, shown, cb_runs>>

\* mutant: --dev only refuses an empty table
SingleApp_AtLeastOne(apps) == Len(apps) >= 1

\* the test that lets --dev go on
SingleApp(apps) == Len(apps) = 1

DevMode ==
    /\ pc = "dev"
    /\ IF server_kwargs["autoreload"] # Some(TRUE)
       THEN pc' = "construct" /\ outcome' = outcome /\ server_kwargs' = server_kwargs
       ELSE IF ~SingleApp(applications)
       THEN pc' = "done" /\ outcome' = "die_dev" /\ server_kwargs' = server_kwargs
       ELSE IF "num_procs" \notin DOMAIN server_kwargs
       THEN pc' = "done" /\ outcome' = "KeyError" /\ server_kwargs' = server_kwargs
       ELSE /\ server_kwargs' = IF server_kwargs["num_procs"] # Some(1)
                                THEN KwSet(server_kwargs, "num_procs", Some(1))
                                ELSE server_kwargs
            /\ pc' = "scan"
            /\ outcome' = outcome
    /\ UNCHANGED <<args, settings, files, applications, watched, warned,
                   server, callbacks, shown, cb_runs>>

\* the paths find_autoreload_targets(app_path) hands to watch: os.walk visits
\* the directory and every directory below it, and yields the names of the
\* non-directories of each
find_autoreload_targets(app_path) ==
    LET root == AbsPath(app_path)
        walked == {root} \cup {FS[i].path : i \in {j \in 1..Len(FS) :
                        FS[j].kind = "dir" /\ IsPrefix(root, FS[j].path)}}
    IN  IF ~IsDir(app_path) THEN {}
        ELSE {Join(d, FS[i].path[Len(FS[i].path)]) :
                <<d, i>> \in {<<d, i>> \in walked \X (1..Len(FS)) :
                    /\ FS[i].kind = "file"
                    /\ SubSeq(FS[i].path, 1, Len(FS[i].path) - 1) = d
                    /\ IsReloadName(FS[i].path[Len(FS[i].path)])}}

\* the argument invoke gives the directory scan
ScanArgument(a) == a.files[1]

ScanDirectory ==
    /\ pc = "scan"
    /\ IF args.files = <<>>
       THEN pc' = "done" /\ outcome' = "IndexError" /\ watched' = watched
       ELSE /\ watched' = watched \cup find_autoreload_targets(ScanArgument(args))
            /\ pc' = "optional"
            /\ outcome' = outcome
    /\ UNCHANGED <<args, settings, files, applications, server_kwargs, warned,
                   server, callbacks, shown, cb_runs>>

\* add_optional_autoreload_files(file_list): directories are warned about and
\* skipped, every other path is watched
add_optional_autoreload_files(file_list) ==
    {file_list[i] : i \in {j \in 1..Len(file_list) : ~IsDir(file_list[j])}}

WatchOptionalFiles ==
    /\ pc = "optional"
    /\ watched' = watched \cup add_optional_autoreload_files(args.dev[1])
    /\ warned' = warned \cup {args.dev[1][i] : i \in {j \in 1..Len(args.dev[1]) :
                                                      IsDir(args.dev[1][j])}}
    /\ pc' = "construct"
    /\ UNCHANGED <<args, settings, outcome, files, applications, server_kwargs,
                   server, callbacks, shown, cb_runs>>

\* Server(applications, **server_kwargs)
ConstructServer ==
    /\ pc = "construct"
    /\ server' = Some([applications |-> applications, kwargs |-> server_kwargs])
    /\ pc' = "show"
    /\ UNCHANGED <<args, settings, outcome, files, applications, server_kwargs,
                   watched, warned, callbacks, shown, cb_runs>>

\* mutant: the callback is queued whether or not --show is set
ShowCallbacks_Always(a) == <<"show_callback">>

\* the callbacks invoke adds to server.io_loop
ShowCallbacks(a) == IF a.show THEN <<"show_callback">> ELSE <<>>

ScheduleShow ==
    /\ pc = "show"
    /\ callbacks' = callbacks \o ShowCallbacks(args)
    /\ pc' = "run"
    /\ UNCHANGED <<args, settings, outcome, files, applications, server_kwargs,
                   watched, warned, server, shown, cb_runs>>

\* server.run_until_shutdown(): the call blocks in the event loop
RunUntilShutdown ==
    /\ pc = "run"
    /\ pc' = "running"
    /\ outcome' = "run"
    /\ UNCHANGED <<args, settings, files, applications, server_kwargs, watched,
                   warned, server, callbacks, shown, cb_runs>>

\* the event loop runs the callback at the head of its queue, once:
\* show_callback shows every route of the table
RunCallback ==
    /\ pc = "running"
    /\ callbacks # <<>>
    /\ callbacks' = Tail(callbacks)
    /\ shown' = shown \o DictKeys(applications)
    /\ cb_runs' = cb_runs + 1
    /\ UNCHANGED <<args, settings, pc, outcome, files, applications,
                   server_kwargs, watched, warned, server>>

\* the server is shut down by a signal; callbacks still queued are dropped
Shutdown ==
    /\ pc = "running"
    /\ pc' = "stopped"
    /\ callbacks' = <<>>
    /\ UNCHANGED <<args, settings, outcome, files, applications, server_kwargs,
                   watched, warned, server, shown, cb_runs>>

Next ==
    \/ ResolveRouteTable
    \/ BuildServerKwargs
    \/ Tranquilize
    \/ ResolveSigning
    \/ CheckSecretKey
    \/ ResolveAuth
    \/ DevMode
    \/ ScanDirectory
    \/ WatchOptionalFiles
    \/ ConstructServer
    \/ ScheduleShow
    \/ RunUntilShutdown
    \/ RunCallback
    \/ Shutdown

Spec == Init /\ [][Next]_vars

\* ---------------------------------------------------------------- claims
\* the positions that follow the construction of the Server
Constructed == {"show", "run", "running", "stopped"}

\* C1: when the resolved sign_sessions flag is true and the secret key is
\* None or empty, the bootstrap stops at the secret-key check with a fatal
\* error (or earlier, on an invalid --session-ids): the Server is never
\* constructed and run_until_shutdown is never reached.
C1_MissingSecretIsFatal ==
    ( /\ "sign_sessions" \in DOMAIN server_kwargs
      /\ server_kwargs["sign_sessions"] = Some(TRUE)
      /\ server_kwargs["secret_key"] \in {None, Some(<<>>)} )
    => /\ server = None
       /\ pc \in {"secret", "done"}
       /\ outcome \in {"none", "die_secret", "RuntimeError"}
       /\ (pc = "done" /\ ValidSessionIds(args.session_ids) => outcome = "die_secret")

\* C1 witness: signing was switched on by --session-ids, the key is the empty
\* byte string, and the bootstrap died at the check.
C1_Witness ==
    /\ outcome = "die_secret"
    /\ ~settings.sign_sessions
    /\ server_kwargs["secret_key"] = Some(<<>>)
    /\ server = None

\* C2: once signing is resolved, (sign_sessions, generate_session_ids) is
\* (settings default, true) without --session-ids, (false, true) for
\* unsigned, (true, true) for signed, (true, false) for external-signed; any
\* other mode ends in a RuntimeError with no Server constructed.
C2_SessionIdsDecision ==
    "sign_sessions" \in DOMAIN server_kwargs =>
        LET sid == args.session_ids
            pair == <<server_kwargs["sign_sessions"][1],
                      server_kwargs["generate_session_ids"][1]>>
        IN  /\ sid = None => pair = <<settings.sign_sessions, TRUE>>
            /\ sid = Some("unsigned") => pair = <<FALSE, TRUE>>
            /\ sid = Some("signed") => pair = <<TRUE, TRUE>>
            /\ sid = Some("external-signed") => pair = <<TRUE, FALSE>>
            /\ sid \notin {None, Some("unsigned"), Some("signed"), Some("external-signed")}
                  => pc = "done" /\ outcome = "RuntimeError" /\ server = None

\* C2 witness: the server runs with externally signed ids although the
\* settings default is unsigned.
C2_Witness ==
    /\ pc = "running"
    /\ args.session_ids = Some("external-signed")
    /\ ~settings.sign_sessions
    /\ server[1].kwargs["generate_session_ids"] = Some(FALSE)

\* C3: with --dev and two or more applications the bootstrap never registers
\* a path with the watcher, never constructs the Server, and ends fatally.
C3_DevMultipleAppsIsFatal ==
    (args.dev # None /\ Len(applications) >= 2)
    => /\ watched = {}
       /\ warned = {}
       /\ server = None
       /\ pc \notin {"scan", "optional", "construct"} \cup Constructed
       /\ (pc = "done" => outcome \in {"die_dev", "die_secret", "RuntimeError"})

\* C3 witness: two applications under --dev with paths to watch; the
\* bootstrap died at the single-application check.
C3_Witness ==
    /\ outcome = "die_dev"
    /\ Len(applications) = 2
    /\ args.dev # None /\ args.dev[1] # <<>>
    /\ watched = {}

\* C4 (as claimed): once the dev block has run with exactly one application,
\* whatever worker count was requested (None included), the configuration
\* holds num_procs = 1 and the downgrade did not end the bootstrap.
C4_DevForcesOneProc ==
    ( /\ args.dev # None
      /\ Len(applications) = 1
      /\ "autoreload" \in DOMAIN server_kwargs
      /\ pc # "dev" )
    => /\ "num_procs" \in DOMAIN server_kwargs
       /\ server_kwargs["num_procs"] = Some(1)
       /\ outcome \notin {"KeyError", "die_dev"}

\* the settings-derived entries that invoke sets whatever their value
AlwaysSet == {"secret_key", "ssl_certfile", "ssl_keyfile", "ssl_password",
              "cookie_secret"}

\* C5 (as claimed): every key of the configuration handed to the Server has
\* a value that is not None.
C5_NoNullValue ==
    server # None => \A k \in DOMAIN server[1].kwargs : server[1].kwargs[k] # None

\* C5 (amended): every key of the configuration handed to the Server other
\* than secret_key, ssl_certfile, ssl_keyfile, ssl_password and cookie_secret
\* has a value that is not None, and an allow-listed key (index apart, which
\* is defaulted) is present exactly when its attribute is not None; those
\* five keys are always present, None included.
C5_NoNullValueButSettings ==
    server # None =>
        LET kw == server[1].kwargs
        IN  /\ \A k \in DOMAIN kw \ AlwaysSet : kw[k] # None
            /\ AlwaysSet \subseteq DOMAIN kw
            /\ \A k \in AllowList \ {"index"} :
                  k \in DOMAIN kw <=> GetAttr(args, k) # None

\* C5 witness: a Server constructed without --address, whose configuration
\* has no address key, a None secret key and a renamed keep-alive.
C5_Witness ==
    /\ server # None
    /\ "address" \notin DOMAIN server[1].kwargs
    /\ server[1].kwargs["secret_key"] = None
    /\ "keep_alive_milliseconds" \in DOMAIN server[1].kwargs

\* C6: after route-table resolution the table is not empty: with no
\* discovered file it is the single entry '/' -> empty Application; otherwise
\* it holds exactly the routes of the discovered files, each mapped to the
\* application of the last file of that route, and no '/' entry.
C6_RouteTableNeverEmpty ==
    pc # "files" =>
        /\ Len(applications) >= 1
        /\ files = <<>> => applications = << <<(<<"/">>), EmptyApplication>> >>
        /\ files # <<>> =>
              /\ <<"/">> \notin DictKeySet(applications)
              /\ DictKeySet(applications) = {UrlPath(files[i]) : i \in 1..Len(files)}
              /\ \A j \in 1..Len(applications) :
                    /\ applications[j][2].handlers # <<>>
                    /\ UrlPath(applications[j][2].handlers[1]) = applications[j][1]
              /\ \A j, k \in 1..Len(applications) :
                    applications[j][1] = applications[k][1] => j = k

\* C6 witness: --glob with a pattern that matches nothing; the server runs
\* the default application.
C6_Witness ==
    /\ pc = "running"
    /\ args.glob /\ args.files # <<>>
    /\ files = <<>>
    /\ DictKeys(server[1].applications) = << <<"/">> >>

\* C7: past the tranquilize step, the configuration has no extra_patterns
\* key when --tranquilize is not set, and when it is set extra_patterns is a
\* list of exactly one pattern: '.*', FallbackHandler, falling back to the
\* WSGI container of the tranquilized application of the discovered files.
C7_ExtraPatternsAllOrNothing ==
    pc \notin {"files", "kwargs", "tranquilize"} =>
        /\ ~args.tranquilize => "extra_patterns" \notin DOMAIN server_kwargs
        /\ args.tranquilize =>
              /\ "extra_patterns" \in DOMAIN server_kwargs
              /\ Len(server_kwargs["extra_patterns"][1]) = 1
              /\ server_kwargs["extra_patterns"][1][1][1] = ".*"
              /\ server_kwargs["extra_patterns"][1][1][2] = "FallbackHandler"
              /\ server_kwargs["extra_patterns"][1][1][3].fallback.WSGIContainer.tranquilized
                    = files
        /\ server # None => server[1].kwargs = server_kwargs

\* C7 witness: a Server constructed with --tranquilize over a non-empty
\* file list.
C7_Witness ==
    /\ server # None
    /\ args.tranquilize
    /\ files # <<>>
    /\ "extra_patterns" \in DOMAIN server[1].kwargs

\* C8 (as claimed): a bootstrap that has ended either reached the server run
\* with a constructed Server or died on one of the three validation
\* failures.
C8_TwoOutcomes ==
    pc \in {"done", "running", "stopped"} =>
        \/ outcome = "run" /\ server # None
        \/ outcome \in {"die_secret", "die_dev", "RuntimeError"} /\ server = None

\* a name ends with a suffix
EndsWith(name, suffix) ==
    /\ Len(name) >= Len(suffix)
    /\ SubSeq(name, Len(name) - Len(suffix) + 1, Len(name)) = suffix

\* the regular files below a path whose names end in .html, .css or .yaml
ReloadFilesBelow(p) ==
    {FS[i].path : i \in {j \in 1..Len(FS) :
        /\ FS[j].kind = "file"
        /\ IsPrefix(AbsPath(p), FS[j].path)
        /\ \E suffix \in {<<".","h","t","m","l">>, <<".","c","s","s">>,
                          <<".","y","a","m","l">>} :
              EndsWith(FS[j].path[Len(FS[j].path)], suffix)}}

\* C9 (as claimed): after the directory scan of dev mode, the watched paths
\* are the .html/.css/.yaml regular files below the first discovered file
\* when that file is a directory, and none when it is not.
C9_ScanFirstApplication ==
    (pc = "optional" /\ files # <<>>) =>
        watched = IF IsDir(files[1]) THEN ReloadFilesBelow(files[1]) ELSE {}

\* C10: server.show is called only from the event loop of the running
\* server; with --show exactly one callback is queued, after the Server is
\* constructed and before run_until_shutdown, it runs at most once and shows
\* every route of the table once; without --show nothing is queued or shown.
C10_ShowDeferredOnce ==
    /\ ~args.show => callbacks = <<>> /\ shown = <<>> /\ cb_runs = 0
    /\ pc \notin {"running", "stopped"} => shown = <<>> /\ cb_runs = 0
    /\ callbacks # <<>> => /\ callbacks = <<"show_callback">>
                           /\ server # None
                           /\ pc \in {"run", "running"}
    /\ (args.show /\ pc = "run") => callbacks = <<"show_callback">>
    /\ Len(callbacks) + cb_runs <= 1
    /\ cb_runs = 0 => shown = <<>>
    /\ cb_runs = 1 => shown = DictKeys(server[1].applications)

\* C10 witness: the callback ran in the event loop and showed the two routes
\* of the table.
C10_Witness ==
    /\ args.show
    /\ pc = "running"
    /\ cb_runs = 1
    /\ Len(shown) = 2
    /\ callbacks = <<>>

====
